---- MODULE Spec2Model ----
(***************************************************************************)
(* Model of the cpuemu assembler front end (src/src/parser.rs and          *)
(* src/src/helpers.rs): lexer, operand resolver, instruction decoder and   *)
(* the block assembler loop of parse_file.                                 *)
(*                                                                         *)
(* A token is a sequence of one-character strings, a raw line is a         *)
(* sequence of characters, a source text is a sequence of raw lines (what  *)
(* str::lines yields).  An instruction is a tuple <<opcode, operands...>>. *)
(***************************************************************************)
EXTENDS Integers, Sequences, FiniteSets, TLC

VARIABLES
    src,                            \* raw lines of f_contents iterated so far
    instructions,                   \* parser.rs:41
    functions,                      \* parser.rs:42
    current_function,               \* parser.rs:45
    current_function_instructions,  \* parser.rs:46
    pc,                             \* "run", "done", "exit" (process::exit), "panic"
    message,                        \* the error printed before process::exit
    returned,                       \* the value parse_file hands to its caller
    vtok,                           \* the token given to parse_value
    vres,                           \* what parse_value produced for vtok
    vpc                             \* "idle", "ready", "resolved"

vars == <<src, instructions, functions, current_function,
          current_function_instructions, pc, message, returned,
          vtok, vres, vpc>>

parseVars == <<src, instructions, functions, current_function,
               current_function_instructions, pc, message, returned>>

valueVars == <<vtok, vres, vpc>>

----------------------------------------------------------------------------
(* Bounds *)

MaxLines == 3        \* lines of a source text drawn from RawLines
MaxBlockLines == 6   \* lines of a source text drawn from BlockLines only
MaxTokLen == 4       \* characters of a token handed to parse_value

----------------------------------------------------------------------------
(* Characters *)

LowerCase == <<"a","b","c","d","e","f","g","h","i","j","k","l","m",
               "n","o","p","q","r","s","t","u","v","w","x","y","z">>
UpperCase == <<"A","B","C","D","E","F","G","H","I","J","K","L","M",
               "N","O","P","Q","R","S","T","U","V","W","X","Y","Z">>
DigitChars == <<"0","1","2","3","4","5","6","7","8","9">>

\* zero-based position of c in s, -1 when absent
IndexOf(c, s) ==
    IF \E i \in 1..Len(s) : s[i] = c
    THEN (CHOOSE i \in 1..Len(s) : s[i] = c) - 1
    ELSE -1

is_ascii_lowercase(c) == IndexOf(c, LowerCase) >= 0
is_ascii_uppercase(c) == IndexOf(c, UpperCase) >= 0
is_ascii_digit(c) == IndexOf(c, DigitChars) >= 0
is_whitespace(c) == c \in {" ", "\t"}

\* str::to_uppercase on the ASCII range
to_uppercase(s) ==
    [i \in 1..Len(s) |->
        IF is_ascii_lowercase(s[i]) THEN UpperCase[IndexOf(s[i], LowerCase) + 1]
        ELSE s[i]]

None == -1
U16 == 65536
I32Max == 2147483647
I32Min == -2147483647 - 1
U16Max == 65535

\* helpers.rs letter_to_integer: Option<u8>, None is -1
letter_to_integer(letter) ==
    IF is_ascii_lowercase(letter) THEN IndexOf(letter, LowerCase)
    ELSE IF is_ascii_uppercase(letter) THEN IndexOf(letter, UpperCase)
    ELSE None

unwrap_or(opt, default) == IF opt = None THEN default ELSE opt

\* token.chars().next().unwrap_or(' ')
first_char(token) == IF Len(token) = 0 THEN " " ELSE token[1]

\* helpers.rs has_b_with_num: the scan over the bytes with its found_b flag
RECURSIVE has_b_scan(_, _, _)
has_b_scan(s, i, found_b) ==
    IF i > Len(s) THEN FALSE
    ELSE IF found_b /\ is_ascii_digit(s[i]) THEN TRUE
    ELSE has_b_scan(s, i + 1, s[i] = "b" \/ s[i] = "B")

has_b_with_num(s) == has_b_scan(s, 1, FALSE)

----------------------------------------------------------------------------
(* Number parsing of the Rust standard library, as parser.rs uses it *)

Err == [ok |-> FALSE, val |-> 0]
Ok(v) == [ok |-> TRUE, val |-> v]

\* value of a digit string in the radix, -1 when a character is not a digit
\* of the radix or the string is empty
RECURSIVE DigitsValue(_, _, _, _)
DigitsValue(s, i, radix, acc) ==
    IF Len(s) = 0 THEN -1
    ELSE IF i > Len(s) THEN acc
    ELSE IF IndexOf(s[i], DigitChars) < 0 \/ IndexOf(s[i], DigitChars) >= radix THEN -1
    ELSE DigitsValue(s, i + 1, radix, acc * radix + IndexOf(s[i], DigitChars))

\* i32::from_str_radix(s, 2): optional sign, at least one binary digit
i32_from_str_radix2(s) ==
    IF Len(s) = 0 THEN Err
    ELSE LET signed == s[1] \in {"+", "-"}
             digits == IF signed THEN Tail(s) ELSE s
             mag    == DigitsValue(digits, 1, 2, 0)
             v      == IF s[1] = "-" THEN 0 - mag ELSE mag
         IN IF mag < 0 \/ v > I32Max \/ v < I32Min THEN Err ELSE Ok(v)

\* str::parse::<u16>(): optional '+', at least one decimal digit, no overflow
parse_u16(s) ==
    IF Len(s) = 0 THEN Err
    ELSE LET digits == IF s[1] = "+" THEN Tail(s) ELSE s
             v      == DigitsValue(digits, 1, 10, 0)
         IN IF v < 0 \/ v > U16Max THEN Err ELSE Ok(v)

\* `as u16` on an i32
as_u16(v) == v % U16

\* &token[2..]
skip2(token) == SubSeq(token, 3, Len(token))

\* parser.rs parse_value.  ok = FALSE is the "Not a valid binary number"
\* exit; val is the u16 otherwise.
parse_value(token) ==
    IF Len(token) >= 1 /\ token[1] = "b" /\ has_b_with_num(token)
    THEN LET r == i32_from_str_radix2(skip2(token))
         IN IF r.ok THEN Ok(as_u16(r.val)) ELSE Err
    ELSE IF parse_u16(token).ok THEN Ok(parse_u16(token).val)
    ELSE Ok(unwrap_or(letter_to_integer(first_char(token)), 0))

----------------------------------------------------------------------------
(* Lexer *)

\* line.split(';').next(): the part of the line before the first ';'
RECURSIVE strip_comment(_, _)
strip_comment(line, i) ==
    IF i > Len(line) THEN line
    ELSE IF line[i] = ";" THEN SubSeq(line, 1, i - 1)
    ELSE strip_comment(line, i + 1)

\* split_whitespace: maximal runs of non-whitespace characters, in order
RECURSIVE split_whitespace(_, _, _, _)
split_whitespace(s, i, cur, acc) ==
    IF i > Len(s) THEN (IF Len(cur) > 0 THEN Append(acc, cur) ELSE acc)
    ELSE IF is_whitespace(s[i])
         THEN split_whitespace(s, i + 1, <<>>,
                               IF Len(cur) > 0 THEN Append(acc, cur) ELSE acc)
         ELSE split_whitespace(s, i + 1, Append(cur, s[i]), acc)

\* parser.rs lex, for one line of the input
lex(line) == split_whitespace(strip_comment(line, 1), 1, <<>>, <<>>)

----------------------------------------------------------------------------
(* Instruction decoder *)

ZeroToken == <<"0">>
EndToken == <<".", "e", "n", "d">>
NoFunction == <<>>

HALT == <<"HALT">>

NoMessage == [kind |-> "none", token |-> <<>>, line |-> -1]
\* variant: the line is reported one-based
UnknownInstruction_OneBased(tok, line_number) ==
    [kind |-> "unknown_instruction", token |-> tok, line |-> line_number + 1]

UnknownInstruction(tok, line_number) ==
    [kind |-> "unknown_instruction", token |-> tok, line |-> line_number]
InvalidBinary(tok) == [kind |-> "invalid_binary", token |-> tok, line |-> -1]
EndWithoutFunction(line_number) ==
    [kind |-> "end_without_function", token |-> <<>>, line |-> line_number]
NestedFunction(line_number) ==
    [kind |-> "nested_function", token |-> <<>>, line |-> line_number]

Some(instr) == [kind |-> "some", instr |-> instr, message |-> NoMessage]
NoInstruction == [kind |-> "none", instr |-> <<>>, message |-> NoMessage]
Exit(msg) == [kind |-> "exit", instr |-> <<>>, message |-> msg]
Panic == [kind |-> "panic", instr |-> <<>>, message |-> NoMessage]

\* tokens.get(i).unwrap_or(&"0".to_string()), i zero-based
get_or_zero(tokens, i) == IF Len(tokens) > i THEN tokens[i + 1] ELSE ZeroToken

\* variant: the source operand goes through the generic resolver
create_mov_instruction_generic(dest, value) ==
    <<"MOV", dest, parse_value(value).val>>

\* parser.rs create_mov_instruction, src always Some(value)
create_mov_instruction(dest, value) ==
    IF parse_u16(value).ok
    THEN <<"MOV", dest, parse_u16(value).val>>
    ELSE <<"MOVR", dest, unwrap_or(letter_to_integer(first_char(value)), 0)>>

\* the width of POW's exponent field; the Instruction enum gives every
\* operand 16 bits
PowExpMax == 65535
pow_exp_fits(v) == v <= PowExpMax

Str(op) ==
    CASE op = "ADD"   -> <<"A","D","D">>
      [] op = "SUB"   -> <<"S","U","B">>
      [] op = "MUL"   -> <<"M","U","L">>
      [] op = "MOV"   -> <<"M","O","V">>
      [] op = "SWAP"  -> <<"S","W","A","P">>
      [] op = "DIV"   -> <<"D","I","V">>
      [] op = "CLR"   -> <<"C","L","R">>
      [] op = "DEC"   -> <<"D","E","C">>
      [] op = "INC"   -> <<"I","N","C">>
      [] op = "CMP"   -> <<"C","M","P">>
      [] op = "HALT"  -> <<"H","A","L","T">>
      [] op = "PRINT" -> <<"P","R","I","N","T">>
      [] op = "POW"   -> <<"P","O","W">>
      [] op = "MOVR"  -> <<"M","O","V","R">>
      [] op = "JMP"   -> <<"J","M","P">>

\* parser.rs parse_instruction; parse_operands runs before the match, so an
\* invalid binary operand exits before the opcode is looked at
parse_instruction(tokens, line_number) ==
    IF Len(tokens) = 0 THEN NoInstruction
    ELSE
    LET instruc == tokens[1]
        d == parse_value(get_or_zero(tokens, 1))
        s == parse_value(get_or_zero(tokens, 2))
        dest == d.val
        source == s.val
        up == to_uppercase(instruc)
    IN  IF ~d.ok THEN Exit(InvalidBinary(get_or_zero(tokens, 1)))
        ELSE IF ~s.ok THEN Exit(InvalidBinary(get_or_zero(tokens, 2)))
        ELSE CASE up = Str("ADD")   -> Some(<<"ADD", dest, source>>)
               [] up = Str("SUB")   -> Some(<<"SUB", dest, source>>)
               [] up = Str("MUL")   -> Some(<<"MUL", dest, source>>)
               [] up = Str("MOV")   ->
                     IF Len(tokens) < 3 THEN Panic
                     ELSE Some(create_mov_instruction(dest, tokens[3]))
               [] up = Str("SWAP")  -> Some(<<"SWAP", dest, source>>)
               [] up = Str("DIV")   -> Some(<<"DIV", dest, source>>)
               [] up = Str("CLR")   -> Some(<<"CLR", dest>>)
               [] up = Str("DEC")   -> Some(<<"DEC", dest>>)
               [] up = Str("INC")   -> Some(<<"INC", dest>>)
               [] up = Str("CMP")   -> Some(<<"CMP", dest, source>>)
               [] up = Str("HALT")  -> Some(HALT)
               [] up = Str("PRINT") -> Some(<<"PRINT", dest>>)
               [] up = Str("POW")   ->
                     IF pow_exp_fits(source) THEN Some(<<"POW", dest, source>>)
                     ELSE NoInstruction
               [] up = Str("MOVR")  -> Some(<<"MOVR", dest, source>>)
               [] up = Str("JMP")   -> Some(<<"JMP", dest>>)
               [] OTHER             -> Exit(UnknownInstruction(instruc, line_number))

----------------------------------------------------------------------------
(* Inputs *)

Sp == <<" ">>
L2(a, b) == a \o Sp \o b
L3(a, b, c) == a \o Sp \o b \o Sp \o c

BlankLine == <<>>
FooToken == <<"F","O","O">>
DotF == <<".", "f">>
DotG == <<".", "g">>

\* source lines that exercise the block assembler
BlockLines ==
    { BlankLine, DotF, DotG, EndToken,
      L3(Str("ADD"), <<"a">>, <<"1">>),
      Str("HALT") }

\* source lines that exercise the lexer and the decoder
DecoderLines ==
    { <<";", " ", "x">>,
      <<" ", "\t">> \o L3(Str("SUB"), <<"c">>, <<"7">>) \o <<"\t">>,
      L3(<<"a","d","d">>, <<"1">>, <<"b","1","1">>),
      L2(Str("SUB"), <<"2">>),
      L3(Str("MUL"), <<"1">>, <<"2">>),
      L3(Str("SWAP"), <<"a">>, <<"Z">>),
      L3(Str("DIV"), <<"1">>, <<"2">>),
      L2(Str("CLR"), <<"B","1">>),
      L2(Str("DEC"), <<"c">>),
      Str("INC"),
      L3(Str("CMP"), <<"1">>, <<"2">>),
      L2(Str("PRINT"), <<"a">>),
      L3(Str("POW"), <<"a">>, <<"2">>),
      L3(Str("MOVR"), <<"1">>, <<"2">>),
      L2(Str("JMP"), <<"3">>) \o <<" ", ";", "x">>,
      L3(Str("MOV"), <<"1">>, <<"5">>),
      L3(Str("MOV"), <<"1">>, <<"c">>),
      L3(<<"m","o","v">>, <<"b">>, <<"+","2">>),
      L3(Str("MOV"), <<"1">>, <<"#">>),
      L3(Str("MOV"), <<"1">>, <<"B","1","0">>),
      L3(Str("MOV"), <<"2">>, <<"-","1">>),
      L3(Str("MOV"), <<"1">>, <<"b","1","1">>),
      L3(Str("MOV"), <<"1">>, <<"b","1","2">>),
      L3(Str("MOV"), <<"a">>, <<"b","2">>),
      L2(Str("MOV"), <<"1">>),
      Str("MOV"),
      L3(FooToken, <<"1">>, <<"2">>),
      <<"b","a","r">>,
      L2(FooToken, <<"b","2">>),
      L3(FooToken, <<"1">>, <<"b","1","2">>) }

RawLines == BlockLines \cup DecoderLines

\* a source text is at most MaxLines lines of RawLines, or at most
\* MaxBlockLines lines of BlockLines
InputAllowed(raw) ==
    \/ Len(src) < MaxLines
    \/ /\ Len(src) < MaxBlockLines
       /\ raw \in BlockLines
       /\ \A i \in 1..Len(src) : src[i] \in BlockLines

ValueAlphabet == {"b", "B", "0", "1", "2", "a", "+", "-"}
ValueTokens == UNION { [1..n -> ValueAlphabet] : n \in 1..MaxTokLen }

----------------------------------------------------------------------------
(* parse_file *)

NoReturn == [valid |-> FALSE, instructions |-> <<>>]
Return(list) == [valid |-> TRUE, instructions |-> list]

starts_with_dot(token) == Len(token) >= 1 /\ token[1] = "."

\* HashMap::insert
insert(map, key, value) ==
    [k \in DOMAIN map \cup {key} |-> IF k = key THEN value ELSE map[k]]

InitParse ==
    /\ src = <<>>
    /\ instructions = <<>>
    /\ functions = <<>>
    /\ current_function = NoFunction
    /\ current_function_instructions = <<>>
    /\ pc = "run"
    /\ message = NoMessage
    /\ returned = NoReturn

Init ==
    /\ InitParse
    /\ vtok = <<>>
    /\ vres = Err
    /\ vpc = "idle"

\* parser.rs:53-55, a line without tokens
SkipEmptyLine ==
    \E raw \in RawLines :
        /\ pc = "run"
        /\ InputAllowed(raw)
        /\ Len(lex(raw)) = 0
        /\ src' = Append(src, raw)
        /\ UNCHANGED <<instructions, functions, current_function,
                       current_function_instructions, pc, message, returned>>
        /\ UNCHANGED valueVars

\* variant: the accumulator is kept when the block is closed
EndDirective_NoReset ==
    \E raw \in RawLines :
        LET tokens == lex(raw)
            line_number == Len(src)
        IN  /\ pc = "run"
            /\ InputAllowed(raw)
            /\ Len(tokens) > 0
            /\ starts_with_dot(tokens[1])
            /\ tokens[1] = EndToken
            /\ src' = Append(src, raw)
            /\ IF current_function # NoFunction
               THEN /\ functions' = insert(functions, current_function,
                                           current_function_instructions)
                    /\ current_function' = NoFunction
                    /\ UNCHANGED <<pc, message>>
               ELSE /\ pc' = "exit"
                    /\ message' = EndWithoutFunction(line_number)
                    /\ UNCHANGED <<functions, current_function>>
            /\ UNCHANGED <<instructions, current_function_instructions, returned>>
            /\ UNCHANGED valueVars

\* parser.rs:58-68, a line whose first token is ".end"
EndDirective ==
    \E raw \in RawLines :
        LET tokens == lex(raw)
            line_number == Len(src)
        IN  /\ pc = "run"
            /\ InputAllowed(raw)
            /\ Len(tokens) > 0
            /\ starts_with_dot(tokens[1])
            /\ tokens[1] = EndToken
            /\ src' = Append(src, raw)
            /\ IF current_function # NoFunction
               THEN /\ functions' = insert(functions, current_function,
                                           current_function_instructions)
                    /\ current_function_instructions' = <<>>
                    /\ current_function' = NoFunction
                    /\ UNCHANGED <<pc, message>>
               ELSE /\ pc' = "exit"
                    /\ message' = EndWithoutFunction(line_number)
                    /\ UNCHANGED <<functions, current_function,
                                   current_function_instructions>>
            /\ UNCHANGED <<instructions, returned>>
            /\ UNCHANGED valueVars

\* variant: a directive replaces the open function instead of being rejected
StartFunction_AllowNesting ==
    \E raw \in RawLines :
        LET tokens == lex(raw)
        IN  /\ pc = "run"
            /\ InputAllowed(raw)
            /\ Len(tokens) > 0
            /\ starts_with_dot(tokens[1])
            /\ tokens[1] # EndToken
            /\ src' = Append(src, raw)
            /\ current_function' = tokens[1]
            /\ UNCHANGED <<pc, message, instructions, functions,
                           current_function_instructions, returned>>
            /\ UNCHANGED valueVars

\* parser.rs:69-80, a line whose first token starts with '.' and is not ".end"
StartFunction ==
    \E raw \in RawLines :
        LET tokens == lex(raw)
            line_number == Len(src)
        IN  /\ pc = "run"
            /\ InputAllowed(raw)
            /\ Len(tokens) > 0
            /\ starts_with_dot(tokens[1])
            /\ tokens[1] # EndToken
            /\ src' = Append(src, raw)
            /\ IF current_function = NoFunction
               THEN /\ current_function' = tokens[1]
                    /\ UNCHANGED <<pc, message>>
               ELSE /\ pc' = "exit"
                    /\ message' = NestedFunction(line_number)
                    /\ UNCHANGED current_function
            /\ UNCHANGED <<instructions, functions,
                           current_function_instructions, returned>>
            /\ UNCHANGED valueVars

\* what a call of parse_instruction does to the control state
AfterDecode(r) ==
    /\ pc' = CASE r.kind = "exit" -> "exit"
               [] r.kind = "panic" -> "panic"
               [] OTHER -> "run"
    /\ message' = r.message

\* parser.rs:81-85, an instruction line inside a function block
FunctionInstruction ==
    \E raw \in RawLines :
        LET tokens == lex(raw)
            line_number == Len(src)
            r == parse_instruction(tokens, line_number)
        IN  /\ pc = "run"
            /\ InputAllowed(raw)
            /\ Len(tokens) > 0
            /\ ~starts_with_dot(tokens[1])
            /\ current_function # NoFunction
            /\ src' = Append(src, raw)
            /\ AfterDecode(r)
            /\ current_function_instructions' =
                   IF r.kind = "some"
                   THEN Append(current_function_instructions, r.instr)
                   ELSE current_function_instructions
            /\ UNCHANGED <<instructions, functions, current_function, returned>>
            /\ UNCHANGED valueVars

\* parser.rs:86-88, an instruction line outside any function block
GlobalInstruction ==
    \E raw \in RawLines :
        LET tokens == lex(raw)
            line_number == Len(src)
            r == parse_instruction(tokens, line_number)
        IN  /\ pc = "run"
            /\ InputAllowed(raw)
            /\ Len(tokens) > 0
            /\ ~starts_with_dot(tokens[1])
            /\ current_function = NoFunction
            /\ src' = Append(src, raw)
            /\ AfterDecode(r)
            /\ instructions' =
                   IF r.kind = "some" THEN Append(instructions, r.instr)
                   ELSE instructions
            /\ UNCHANGED <<functions, current_function,
                           current_function_instructions, returned>>
            /\ UNCHANGED valueVars

\* variant: the global list is returned as it is
Finish_NoHalt ==
    /\ pc = "run"
    /\ returned' = Return(instructions)
    /\ pc' = "done"
    /\ UNCHANGED <<src, instructions, functions, current_function,
                   current_function_instructions, message>>
    /\ UNCHANGED valueVars

\* parser.rs:91-99, the end of the input: push HALT and return the global list
Finish ==
    /\ pc = "run"
    /\ instructions' = Append(instructions, HALT)
    /\ returned' = Return(instructions')
    /\ pc' = "done"
    /\ UNCHANGED <<src, functions, current_function,
                   current_function_instructions, message>>
    /\ UNCHANGED valueVars

Next ==
    \/ SkipEmptyLine
    \/ EndDirective
    \/ StartFunction
    \/ FunctionInstruction
    \/ GlobalInstruction
    \/ Finish

Spec == Init /\ [][Next]_vars

----------------------------------------------------------------------------
(* parse_value on its own *)

InitValue ==
    /\ InitParse
    /\ vtok \in ValueTokens
    /\ vres = Err
    /\ vpc = "ready"

\* one call of parse_value
ResolveToken ==
    /\ vpc = "ready"
    /\ vres' = parse_value(vtok)
    /\ vpc' = "resolved"
    /\ UNCHANGED vtok
    /\ UNCHANGED parseVars

NextValue == ResolveToken

SpecValue == InitValue /\ [][NextValue]_vars

----------------------------------------------------------------------------
(* The source text read back, independently of the assembler's variables *)

Toks(i) == lex(src[i])
IsOpenLine(i) == Len(Toks(i)) > 0 /\ starts_with_dot(Toks(i)[1]) /\ Toks(i)[1] # EndToken
IsEndLine(i) == Len(Toks(i)) > 0 /\ Toks(i)[1] = EndToken
IsInstrLine(i) == Len(Toks(i)) > 0 /\ ~starts_with_dot(Toks(i)[1])

\* line i lies after an opening directive with no ".end" in between
InBlock(i) ==
    \E j \in 1..(i - 1) :
        IsOpenLine(j) /\ \A k \in (j + 1)..(i - 1) : ~IsEndLine(k)

\* the instructions decoded from the instruction lines lo..hi that
\* lie in keep, in source order (line numbers are zero-based in parse_instruction)
RECURSIVE DecodedLines(_, _, _)
DecodedLines(lo, hi, keep) ==
    IF lo > hi THEN <<>>
    ELSE LET r == parse_instruction(Toks(lo), lo - 1)
         IN (IF IsInstrLine(lo) /\ lo \in keep /\ r.kind = "some" THEN <<r.instr>> ELSE <<>>)
            \o DecodedLines(lo + 1, hi, keep)

OutsideBlocks == { i \in 1..Len(src) : ~InBlock(i) }
AnyLine == 1..Len(src)

GlobalDecoded == DecodedLines(1, Len(src), OutsideBlocks)

\* the opening directives that have been closed, and where
ClosedOpeners == { j \in 1..Len(src) : IsOpenLine(j) /\ \E k \in (j + 1)..Len(src) : IsEndLine(k) }
EndOf(j) == CHOOSE k \in (j + 1)..Len(src) :
                IsEndLine(k) /\ \A m \in (j + 1)..(k - 1) : ~IsEndLine(m)
LastClosedOpener(name) ==
    CHOOSE j \in ClosedOpeners :
        Toks(j)[1] = name /\ \A m \in ClosedOpeners : Toks(m)[1] = name => m <= j
OpenOpeners == { j \in 1..Len(src) : IsOpenLine(j) /\ \A k \in (j + 1)..Len(src) : ~IsEndLine(k) }

\* the line the last step consumed
Consumed == Len(src') = Len(src) + 1
NewTokens == lex(src'[Len(src')])
OperandsResolve(t) ==
    parse_value(get_or_zero(t, 1)).ok /\ parse_value(get_or_zero(t, 2)).ok
SupportedOpcodes ==
    { Str(op) : op \in {"ADD", "SUB", "MUL", "MOV", "SWAP", "DIV", "CLR", "DEC",
                        "INC", "CMP", "HALT", "PRINT", "POW", "MOVR", "JMP"} }
IsInstructionLine(t) == Len(t) > 0 /\ ~starts_with_dot(t[1])
\* the step appended exactly instr, to the accumulator of the open block or
\* to the global list
AppendedToTarget(instr) ==
    IF current_function = NoFunction
    THEN /\ instructions' = Append(instructions, instr)
         /\ current_function_instructions' = current_function_instructions
    ELSE /\ current_function_instructions' = Append(current_function_instructions, instr)
         /\ instructions' = instructions
NothingAppended ==
    /\ instructions' = instructions
    /\ current_function_instructions' = current_function_instructions

----------------------------------------------------------------------------
(* Claims *)

\* C1: when parse_file completes, the returned global list is the decoded
\* global-scope instructions in source order followed by one HALT pushed by
\* the assembler, so its last element is HALT.
C1_TrailingHalt ==
    pc = "done" =>
        /\ returned.valid
        /\ returned.instructions = Append(GlobalDecoded, HALT)
        /\ returned.instructions[Len(returned.instructions)] = HALT

\* a completed parse of a text with a HALT line of its own and a function block
C1_Witness ==
    /\ pc = "done"
    /\ \E i \in 1..Len(src) : Toks(i) = <<Str("HALT")>> /\ ~InBlock(i)
    /\ \E j \in 1..Len(src) : IsOpenLine(j)
    /\ Len(returned.instructions) >= 2

\* C2: a token "b" + binary digits resolves to the base-2 value of the digits
\* after the marker; a token starting with "b" without a b followed by a
\* digit resolves by decimal, then letter, then zero.
IsBinaryLiteral(tok) ==
    Len(tok) >= 2 /\ tok[1] = "b" /\ \A i \in 2..Len(tok) : tok[i] \in {"0", "1"}
C2_BinaryValue ==
    vpc = "resolved" =>
        /\ IsBinaryLiteral(vtok) =>
               vres.ok /\ vres.val = DigitsValue(Tail(vtok), 1, 2, 0)
        /\ (vtok[1] = "b" /\ ~has_b_with_num(vtok)) =>
               /\ vres.ok
               /\ vres.val = IF parse_u16(vtok).ok THEN parse_u16(vtok).val
                             ELSE unwrap_or(letter_to_integer(vtok[1]), 0)

\* C3 as stated: an instruction line with an unsupported opcode ends the
\* parse in the unknown-instruction error naming the token and the zero-based
\* line, whatever its operands are; nothing is appended or returned.
C3_UnknownOpcodeAlways ==
    [][(Consumed /\ IsInstructionLine(NewTokens)
          /\ to_uppercase(NewTokens[1]) \notin SupportedOpcodes)
       => /\ pc' = "exit"
          /\ message'.kind = "unknown_instruction"
          /\ message'.token = NewTokens[1]
          /\ message'.line = Len(src)
          /\ NothingAppended
          /\ ~returned'.valid]_vars

\* C3 amended: an instruction line with an unsupported opcode ends the parse
\* with nothing appended and nothing returned; the error is the
\* unknown-instruction error naming the token and the zero-based line when
\* both operand tokens resolve, and the invalid-binary error of the first
\* operand that does not resolve otherwise.
C3_UnknownOpcode ==
    /\ [](pc = "exit" => ~returned.valid)
    /\ [][(Consumed /\ IsInstructionLine(NewTokens)
             /\ to_uppercase(NewTokens[1]) \notin SupportedOpcodes)
          => /\ pc' = "exit"
             /\ NothingAppended
             /\ ~returned'.valid
             /\ IF OperandsResolve(NewTokens)
                THEN /\ message'.kind = "unknown_instruction"
                     /\ message'.token = NewTokens[1]
                     /\ message'.line = Len(src)
                ELSE /\ message'.kind = "invalid_binary"
                     /\ ~parse_value(message'.token).ok
                     /\ message'.token \in {get_or_zero(NewTokens, 1),
                                            get_or_zero(NewTokens, 2)}]_vars

\* the unknown-instruction error on a line that follows a blank or
\* comment-only line
C3_Witness ==
    /\ pc = "exit"
    /\ message.kind = "unknown_instruction"
    /\ message.line >= 1
    /\ \E i \in 1..(Len(src) - 1) : Len(Toks(i)) = 0

\* C4: while the parse runs, the global list is the decoded instruction
\* lines outside blocks, the accumulator is the decoded instruction lines
\* since the open directive (empty when no block is open), and the function
\* mapping holds, under each closed directive token, the decoded lines
\* between that directive and its ".end".
C4_BlockSeparation ==
    pc = "run" =>
        /\ instructions = GlobalDecoded
        /\ IF OpenOpeners = {}
           THEN current_function = NoFunction /\ current_function_instructions = <<>>
           ELSE \E j \in OpenOpeners :
                    /\ current_function = Toks(j)[1]
                    /\ current_function_instructions = DecodedLines(j + 1, Len(src), AnyLine)
        /\ DOMAIN functions = { Toks(j)[1] : j \in ClosedOpeners }
        /\ \A name \in DOMAIN functions :
               /\ name[1] = "."
               /\ functions[name] =
                      DecodedLines(LastClosedOpener(name) + 1,
                                   EndOf(LastClosedOpener(name)) - 1, AnyLine)

\* a closed block, a second block open with an instruction of its own, and a
\* global instruction
C4_Witness ==
    /\ pc = "run"
    /\ DOMAIN functions # {}
    /\ \E n \in DOMAIN functions : Len(functions[n]) >= 1
    /\ current_function # NoFunction
    /\ current_function \notin DOMAIN functions
    /\ Len(current_function_instructions) = 1

\* C5: the value a successful parse returns lets the caller observe every
\* function block closed during the parse.
C5_FunctionsReturned ==
    pc = "done" =>
        \A name \in DOMAIN functions :
            /\ "functions" \in DOMAIN returned
            /\ name \in DOMAIN returned.functions
            /\ returned.functions[name] = functions[name]

\* C6: the parse does not complete successfully while a block is open.
C6_UnterminatedBlockIsError ==
    ~(pc = "done" /\ current_function # NoFunction)

\* C7: at most one block is open (the opening directives read exceed the
\* ".end" lines read by one exactly when a function is current, by nothing
\* otherwise); a directive read while a block is open ends the parse in the
\* nested-definition error, an ".end" read while none is open ends it in an
\* error, and nothing is returned in either case.
C7_NoNesting ==
    /\ [](pc \in {"run", "done"} =>
            LET opened == Cardinality({ i \in 1..Len(src) : IsOpenLine(i) })
                closed == Cardinality({ i \in 1..Len(src) : IsEndLine(i) })
            IN  /\ opened - closed \in {0, 1}
                /\ (opened - closed = 1) <=> (current_function # NoFunction))
    /\ [](pc = "exit" => ~returned.valid /\ returned.instructions = <<>>)
    /\ [][(Consumed /\ Len(NewTokens) > 0 /\ starts_with_dot(NewTokens[1]))
          => /\ (NewTokens[1] # EndToken /\ current_function # NoFunction)
                   => /\ pc' = "exit"
                      /\ message'.kind = "nested_function"
                      /\ message'.line = Len(src)
                      /\ ~returned'.valid
             /\ (NewTokens[1] = EndToken /\ current_function = NoFunction)
                   => /\ pc' = "exit"
                      /\ message'.kind = "end_without_function"
                      /\ message'.line = Len(src)
                      /\ ~returned'.valid]_vars

\* the nested-definition error, raised inside a block that had collected an
\* instruction
C7_Witness ==
    /\ pc = "exit"
    /\ message.kind = "nested_function"
    /\ current_function # NoFunction
    /\ Len(current_function_instructions) >= 1
    /\ ~returned.valid

\* C8: a line of a supported opcode with fewer than three tokens decodes as
\* the same line with "0" in place of each absent operand, and the parse
\* goes on.
C8_MissingOperandsDefault ==
    [][(Consumed /\ IsInstructionLine(NewTokens)
          /\ to_uppercase(NewTokens[1]) \in SupportedOpcodes
          /\ Len(NewTokens) < 3)
       => LET padded == <<NewTokens[1], get_or_zero(NewTokens, 1),
                          get_or_zero(NewTokens, 2)>>
          IN  /\ pc' = "run"
              /\ AppendedToTarget(parse_instruction(padded, Len(src)).instr)]_vars

\* what the MOV rule gives for a line with a third token
ExpectedMov(t) ==
    IF parse_u16(t[3]).ok
    THEN <<"MOV", parse_value(t[2]).val, parse_u16(t[3]).val>>
    ELSE <<"MOVR", parse_value(t[2]).val,
           IF letter_to_integer(t[3][1]) = None THEN 0 ELSE letter_to_integer(t[3][1])>>

\* C9 as stated: every MOV line with a third token emits MOV(dest, literal)
\* when the third token is a plain decimal u16 and MOVR(dest, letter index of
\* its first character, 0 for a non-letter) otherwise.
C9_MovRuleAlways ==
    [][(Consumed /\ IsInstructionLine(NewTokens)
          /\ to_uppercase(NewTokens[1]) = Str("MOV")
          /\ Len(NewTokens) >= 3)
       => /\ pc' = "run"
          /\ AppendedToTarget(ExpectedMov(NewTokens))]_vars

\* C9 amended: the same, for every MOV line with a third token whose second
\* and third tokens the generic resolver resolves without the
\* invalid-binary error; on that error the parse ends and nothing is emitted.
C9_MovRule ==
    [][(Consumed /\ IsInstructionLine(NewTokens)
          /\ to_uppercase(NewTokens[1]) = Str("MOV")
          /\ Len(NewTokens) >= 3)
       => IF OperandsResolve(NewTokens)
          THEN /\ pc' = "run"
               /\ AppendedToTarget(ExpectedMov(NewTokens))
               /\ ExpectedMov(NewTokens)[1] = "MOV" <=> parse_u16(NewTokens[3]).ok
          ELSE /\ pc' = "exit"
               /\ message'.kind = "invalid_binary"
               /\ NothingAppended]_vars

\* a MOV line whose third token is a letter, not a decimal, was decoded to a
\* MOVR with that letter's index
C9_Witness ==
    /\ pc = "run"
    /\ Len(src) >= 1
    /\ Len(Toks(Len(src))) >= 3
    /\ to_uppercase(Toks(Len(src))[1]) = Str("MOV")
    /\ ~parse_u16(Toks(Len(src))[3]).ok
    /\ letter_to_integer(Toks(Len(src))[3][1]) > 0
    /\ instructions # <<>>
    /\ instructions[Len(instructions)][1] = "MOVR"
    /\ instructions[Len(instructions)][3] = letter_to_integer(Toks(Len(src))[3][1])

\* C10: a token that starts with "B" and has a b/B followed by a digit
\* resolves as the same token written with a lowercase "b" does.
C10_MarkerCaseInsensitive ==
    (vpc = "resolved" /\ vtok[1] = "B" /\ has_b_with_num(vtok))
        => vres = parse_value(<<"b">> \o Tail(vtok))

====
